---- MODULE Spec2Model ----
(***************************************************************************)
(* Model of the 7dmt package engine (src/src/dmt/commands/package.rs), the *)
(* Modlet entity (src/src/lib.rs), the instruction parser                  *)
(* (src/src/modlet_xml.rs) and the instruction writer                      *)
(* (src/src/modlet_xml/command.rs).  Spec is the package run, ParserSpec   *)
(* the scan of one instruction document by load_xml, WriterSpec one call   *)
(* of Command::write.                                                      *)
(*                                                                         *)
(* Strings that the code compares (modlet names) are sequences of          *)
(* character codes, compared lexicographically as str::cmp does.  The      *)
(* directory names "Config" (package.rs) and "config" (lib.rs) denote the  *)
(* same directory, as on the file systems the tool is run on.              *)
(***************************************************************************)
EXTENDS Integers, Sequences, FiniteSets, TLC

\* Largest number of modlet paths handed to one run.
MaxModlets == 3

\* Largest number of events of one instruction document.
MaxEvents == 4

(***************************************************************************)
(* Values                                                                  *)
(***************************************************************************)
None == <<>>
Some(x) == <<x>>

\* One markup event as handed to quick_xml::Writer::write_event: a start, end
\* or empty tag (tag, attrs), a text (tag holds the text) or a comment (tag
\* holds the text; who holds a modlet name spliced into it by format!).
Ev(type, tag, who, attrs) ==
    [type |-> type, tag |-> tag, who |-> who, attrs |-> attrs]

Text(s) == Ev("text", s, <<>>, <<>>)
StartEv(tag, attrs) == Ev("start", tag, <<>>, attrs)
EndEv(tag) == Ev("end", tag, <<>>, <<>>)
EmptyEv(tag, attrs) == Ev("empty", tag, <<>>, attrs)
CommentEv(s) == Ev("comment", s, <<>>, <<>>)

\* An InstructionSet-carrying Command.
Cmd(kind, xpath, csv_op, attribute, values) ==
    [kind |-> kind, xpath |-> xpath, csv_op |-> csv_op,
     attribute |-> attribute, values |-> values]

CsvAdd(delim) == [op |-> "add", delim |-> delim]
CsvRemove(delim) == [op |-> "remove", delim |-> delim]

\* Command::NoOp
NoOp == Cmd("NoOp", "", None, None, <<>>)

\* str::cmp on two names: lexicographic on the character codes.
RECURSIVE StrLess(_, _)
StrLess(a, b) ==
    IF b = <<>> THEN FALSE
    ELSE IF a = <<>> THEN TRUE
    ELSE IF Head(a) # Head(b) THEN Head(a) < Head(b)
    ELSE StrLess(Tail(a), Tail(b))

StrLeq(a, b) == a = b \/ StrLess(a, b)

RECURSIVE Join(_, _)
\* [String]::join(sep)
Join(vals, sep) ==
    IF vals = <<>> THEN ""
    ELSE IF Len(vals) = 1 THEN Head(vals)
    ELSE Head(vals) \o sep \o Join(Tail(vals), sep)

Range(s) == {s[i] : i \in 1..Len(s)}

RECURSIVE SetToSeqs(_)
\* All orderings of a finite set.
SetToSeqs(S) ==
    IF S = {} THEN {<<>>}
    ELSE UNION {{<<x>> \o r : r \in SetToSeqs(S \ {x})} : x \in S}

(***************************************************************************)
(* Instruction writer: src/src/modlet_xml/command.rs                       *)
(***************************************************************************)
\* impl Display for Command: the element name the writer uses.
to_string(cmd) ==
    CASE cmd.kind = "Append" -> "append"
      [] cmd.kind = "Comment" -> "comment"
      [] cmd.kind = "Csv" -> "csv"
      [] cmd.kind = "InsertAfter" -> "insertAfter"
      [] cmd.kind = "InsertBefore" -> "insertBefore"
      [] cmd.kind = "NoOp" -> "no_op"
      [] cmd.kind = "Remove" -> "remove"
      [] cmd.kind = "RemoveAttribute" -> "removeAttribute"
      [] cmd.kind = "Set" -> "set"
      [] cmd.kind = "SetAttribute" -> "setAttribute"
      [] cmd.kind = "StartTag" -> "start_tag"
      [] OTHER -> "unknown"

\* InstructionSet::values_to_strings
values_to_strings(is) == [i \in 1..Len(is.values) |-> is.values[i].tag]

xpath_attribute(is) == <<"xpath", is.xpath>>

Wrote(evs) == [panic |-> FALSE, events |-> evs]
Panicked == [panic |-> TRUE, events |-> <<>>]

\* A variant of the last two arms that writes the Command as an element.
as_element(cmd) == Wrote(<<EmptyEv(to_string(cmd), <<>>)>>)

\* Command::write, arms StartTag and _: nothing is written.
no_output(cmd) == Wrote(<<>>)

\* Command::write: the events put on the sink, or a panic (Option::unwrap on
\* None) raised while the attribute list is built, before anything is written.
Command_write(cmd) ==
    CASE cmd.kind \in {"Append", "InsertAfter", "InsertBefore"} ->
            Wrote(<<StartEv(to_string(cmd), <<xpath_attribute(cmd)>>)>>
                  \o cmd.values
                  \o <<EndEv(to_string(cmd))>>)
      [] cmd.kind = "Comment" ->
            Wrote(<<CommentEv(Join(values_to_strings(cmd), ""))>>)
      [] cmd.kind = "Csv" ->
            IF cmd.csv_op = None THEN Panicked
            ELSE Wrote(<<StartEv(to_string(cmd),
                                 <<xpath_attribute(cmd),
                                   <<"delim", cmd.csv_op[1].delim>>,
                                   <<"op", cmd.csv_op[1].op>>>>),
                         Text(Join(values_to_strings(cmd), ",")),
                         EndEv(to_string(cmd))>>)
      [] cmd.kind \in {"Remove", "RemoveAttribute"} ->
            Wrote(<<EmptyEv(to_string(cmd), <<xpath_attribute(cmd)>>)>>)
      [] cmd.kind = "Set" ->
            Wrote(<<StartEv(to_string(cmd), <<xpath_attribute(cmd)>>),
                    Text(Join(values_to_strings(cmd), ",")),
                    EndEv(to_string(cmd))>>)
      [] cmd.kind = "SetAttribute" ->
            IF cmd.attribute = None THEN Panicked
            ELSE Wrote(<<StartEv(to_string(cmd),
                                 <<xpath_attribute(cmd),
                                   <<"name", cmd.attribute[1]>>>>),
                         Text(Join(values_to_strings(cmd), ",")),
                         EndEv(to_string(cmd))>>)
      [] cmd.kind = "StartTag" -> no_output(cmd)
      [] OTHER -> no_output(cmd)

RECURSIVE WriteAll(_)
\* ModletXML::write: every Command of the file in order, stopping at the
\* first one that does not complete.
WriteAll(cmds) ==
    IF cmds = <<>> THEN Wrote(<<>>)
    ELSE LET h == Command_write(Head(cmds)) IN
         IF h.panic THEN Panicked
         ELSE LET t == WriteAll(Tail(cmds)) IN
              [panic |-> t.panic, events |-> h.events \o t.events]

(***************************************************************************)
(* Instruction parser: src/src/modlet_xml.rs                               *)
(*                                                                         *)
(* A document is the sequence of events quick_xml's Reader yields for it   *)
(* (trim_text(true), end names checked); a Rust String is a TLA+ string.   *)
(* The parser's Command carries a payload of Strings (modlet_xml.rs 28-33),*)
(* the writer's a payload of events (command.rs 40-45).                    *)
(***************************************************************************)
COLLECTION_COMMANDS == {"append", "insert_after", "insert_before"}
TEXT_COMMANDS == {"csv", "set", "set_attribute"}
EMPTY_COMMANDS == {"remove", "remove_attribute"}

\* Command::from_str of modlet_xml.rs: an exact match on the tag's bytes.
from_str(tag) ==
    CASE tag = "append" -> "Append"
      [] tag = "comment" -> "Comment"
      [] tag = "csv" -> "Csv"
      [] tag = "insert_after" -> "InsertAfter"
      [] tag = "insert_before" -> "InsertBefore"
      [] tag = "no_op" -> "NoOp"
      [] tag = "remove" -> "Remove"
      [] tag = "remove_attribute" -> "RemoveAttribute"
      [] tag = "set" -> "Set"
      [] tag = "set_attribute" -> "SetAttribute"
      [] tag = "start_tag" -> "StartTag"
      [] OTHER -> "Unknown"

\* impl AsRef<str> for Command of modlet_xml.rs
as_ref(kind) ==
    CASE kind = "Append" -> "append"
      [] kind = "Comment" -> "comment"
      [] kind = "Csv" -> "csv"
      [] kind = "InsertAfter" -> "insert_after"
      [] kind = "InsertBefore" -> "insert_before"
      [] kind = "NoOp" -> "no_op"
      [] kind = "Remove" -> "remove"
      [] kind = "RemoveAttribute" -> "remove_attribute"
      [] kind = "Set" -> "set"
      [] kind = "SetAttribute" -> "set_attribute"
      [] kind = "StartTag" -> "start_tag"
      [] OTHER -> "unknown"

\* InstructionSet::new() of modlet_xml.rs
InstructionSet_new ==
    [attribute |-> None, values |-> <<>>, csv_op |-> None, xpath |-> None]

\* Command::Comment(String)
Comment(text) == Cmd("Comment", None, None, None, <<text>>)

\* Command::set: the variant of the tag with the InstructionSet built so far.
Command_set(kind, is) ==
    CASE kind \in {"Append", "Csv", "InsertAfter", "InsertBefore", "Remove",
                   "RemoveAttribute", "Set", "SetAttribute"} ->
            Cmd(kind, is.xpath, is.csv_op, is.attribute, is.values)
      [] kind = "Comment" -> Comment(Join(is.values, ""))
      [] OTHER -> Cmd(kind, None, None, None, <<>>)

RECURSIVE get_attribute(_, _)
\* get_attribute(e, attr) on the attribute list of a tag
get_attribute(attrs, attr) ==
    IF attrs = <<>> THEN None
    ELSE IF Head(attrs)[1] = attr THEN Some(Head(attrs)[2])
    ELSE get_attribute(Tail(attrs), attr)

RECURSIVE attr_bytes(_)
attr_bytes(attrs) ==
    IF attrs = <<>> THEN ""
    ELSE " " \o Head(attrs)[1] \o "=" \o Head(attrs)[2] \o attr_bytes(Tail(attrs))

\* e.as_ref(): the text between the angle brackets of a start or empty tag,
\* the name of an end tag.
bytes(e) == e.tag \o attr_bytes(e.attrs)

\* str::trim on the comment texts that occur.
trim(text) ==
    CASE text = " " -> ""
      [] text = " c " -> "c"
      [] OTHER -> text

\* stack.get(0).unwrap_or(&Command::NoOp).as_ref()
last_command(stack) == IF stack = <<>> THEN "no_op" ELSE as_ref(stack[1])

\* The locals of load_xml between two events.
Scan(st, is, tag, cmds, how) ==
    [stack |-> st, modlet |-> is, start_tag |-> tag, commands |-> cmds,
     status |-> how]

Begin == Scan(<<>>, InstructionSet_new, "", <<>>, "scan")

push_front(cmds, c) == <<c>> \o cmds

\* commands.push(c)
push(cmds, c) == Append(cmds, c)

\* modlet_xml.rs 189-195
on_comment(s, e) ==
    LET comment == trim(e.tag) IN
    IF comment # "" THEN [s EXCEPT !.commands = push(@, Comment(comment))]
    ELSE s

\* modlet_xml.rs 198-236
on_start(s, e) ==
    LET last == last_command(s.stack)
        wraps == s.start_tag = "" /\ from_str(e.tag) = "Unknown" /\ last = "no_op"
        command == IF wraps THEN "StartTag" ELSE from_str(e.tag)
        s1 == IF wraps THEN [s EXCEPT !.start_tag = e.tag] ELSE s
        delim == get_attribute(e.attrs, "delim")
        op == get_attribute(e.attrs, "op")
    IN  IF last \in COLLECTION_COMMANDS
        THEN [s1 EXCEPT !.modlet.values = Append(@, bytes(e))]
        ELSE IF as_ref(command) \notin {"unknown", "no_op"}
        THEN IF as_ref(command) = "start_tag" THEN s1
             ELSE IF delim = Some("") THEN [s1 EXCEPT !.status = "Panic"]
             ELSE LET d == IF delim = None THEN "," ELSE delim[1] IN
                  [s1 EXCEPT !.modlet.xpath = get_attribute(e.attrs, "xpath"),
                             !.modlet.csv_op =
                                 IF op = Some("add") THEN Some(CsvAdd(d))
                                 ELSE IF op = Some("remove") THEN Some(CsvRemove(d))
                                 ELSE None,
                             !.stack = Append(@, command)]
        ELSE s1

\* modlet_xml.rs 239-249
on_empty(s, e) ==
    IF e.tag \in EMPTY_COMMANDS \/ last_command(s.stack) \in COLLECTION_COMMANDS
    THEN [s EXCEPT !.modlet.values = Append(@, bytes(e))]
    ELSE [s EXCEPT !.status = "Panic"]

\* modlet_xml.rs 252-261
on_text(s, e) ==
    IF last_command(s.stack) \in TEXT_COMMANDS
    THEN [s EXCEPT !.modlet.values = Append(@, e.tag)]
    ELSE [s EXCEPT !.status = "Panic"]

\* modlet_xml.rs 264-281
on_end(s, e) ==
    LET last == last_command(s.stack)
        command == IF from_str(e.tag) = "Unknown" /\ s.start_tag # ""
                   THEN "StartTag" ELSE from_str(e.tag)
    IN  IF last \in COLLECTION_COMMANDS /\ as_ref(command) # last
        THEN [s EXCEPT !.modlet.values = Append(@, e.tag)]
        ELSE [s EXCEPT !.commands = push(@, Command_set(command, s.modlet)),
                       !.stack = <<>>,
                       !.modlet = InstructionSet_new]

\* modlet_xml.rs 284 and 296: the loop ends, load_xml returns Ok(commands)
on_eof(s) == [s EXCEPT !.status = "Ok"]

\* modlet_xml.rs 186 (the reader's Err) and 287-289 (any other event)
on_panic(s) == [s EXCEPT !.status = "Panic"]

\* One turn of the loop of load_xml on the event the reader yields.
step(s, e) ==
    CASE e.type = "comment" -> on_comment(s, e)
      [] e.type = "start" -> on_start(s, e)
      [] e.type = "empty" -> on_empty(s, e)
      [] e.type = "text" -> on_text(s, e)
      [] e.type = "end" -> on_end(s, e)
      [] OTHER -> on_panic(s)

RECURSIVE scan_from(_, _)
scan_from(s, events) ==
    IF s.status # "scan" THEN s
    ELSE IF events = <<>> THEN on_eof(s)
    ELSE scan_from(step(s, Head(events)), Tail(events))

\* load_xml(path) on the events of the file at path
load_xml(events) == scan_from(Begin, events)

\* The documents read: every event sequence of up to MaxEvents events the
\* reader can yield.  An end tag closes the innermost open element (any
\* other end tag is an Err of the reader), an Err is the last event, and two
\* texts are never adjacent.
Xpath == <<"xpath", "x">>

Name == <<"name", "n">>

Tags == {"set", "set_attribute", "csv", "append", "insert_after", "item"}

Tokens ==
    {CommentEv(" c "), CommentEv(" "), Text("5"),
     StartEv("set", <<Xpath>>),
     StartEv("csv", <<Xpath, <<"op", "add">>>>),
     StartEv("csv", <<Xpath>>),
     StartEv("csv", <<Xpath, <<"delim", ";">>, <<"op", "remove">>>>),
     StartEv("set_attribute", <<Xpath, Name>>),
     StartEv("append", <<Xpath>>),
     StartEv("insert_after", <<Xpath>>),
     StartEv("item", <<>>),
     EmptyEv("remove", <<Xpath>>),
     EmptyEv("item", <<>>),
     Ev("err", "", <<>>, <<>>),
     Ev("decl", "", <<>>, <<>>)}
    \cup {EndEv(t) : t \in Tags}

RECURSIVE open_tags(_)
\* The names of the elements open after the events, innermost last.
open_tags(events) ==
    IF events = <<>> THEN <<>>
    ELSE LET o == open_tags(SubSeq(events, 1, Len(events) - 1))
             e == events[Len(events)]
         IN  IF e.type = "start" THEN Append(o, e.tag)
             ELSE IF e.type = "end" THEN SubSeq(o, 1, Len(o) - 1)
             ELSE o

Yields(events, e) ==
    /\ events # <<>> =>
          /\ events[Len(events)].type # "err"
          /\ ~(events[Len(events)].type = "text" /\ e.type = "text")
    /\ e.type = "end" =>
          LET o == open_tags(events) IN o # <<>> /\ o[Len(o)] = e.tag

RECURSIVE Documents(_)
Documents(n) ==
    IF n = 0 THEN {<<>>}
    ELSE LET shorter == Documents(n - 1)
             longest == {d \in shorter : Len(d) = n - 1}
         IN  shorter \cup
             {Append(x[1], x[2]) :
                 x \in {y \in longest \X Tokens : Yields(y[1], y[2])}}

\* The parser's Command as the writer takes it: the payload Strings as the
\* bytes of the payload events, an absent xpath as the empty xpath.
to_writer(c) ==
    Cmd(c.kind,
        IF c.xpath = None THEN "" ELSE c.xpath[1],
        c.csv_op, c.attribute,
        [i \in 1..Len(c.values) |-> Text(c.values[i])])

\* serialize: ModletXML::write on the Commands load_xml returned.
serialize(cmds) == WriteAll([i \in 1..Len(cmds) |-> to_writer(cmds[i])])

RECURSIVE read_back(_)
\* The events the Reader yields for the markup the Writer made of the
\* events: an empty text is no event, adjacent texts are one text.
read_back(events) ==
    IF events = <<>> THEN <<>>
    ELSE LET e == Head(events)
             rest == read_back(Tail(events))
         IN  IF e.type = "text" /\ e.tag = "" THEN rest
             ELSE IF e.type = "text" /\ rest # <<>> /\ Head(rest).type = "text"
             THEN <<Text(e.tag \o Head(rest).tag)>> \o Tail(rest)
             ELSE <<e>> \o rest

(***************************************************************************)
(* The modlet directories on disk.  Names are character codes              *)
(* ("A" = <<1>>, "B" = <<2>>, ...); instruction files carry the Command    *)
(* sequence load_xml returns for them, or are malformed (load_xml panics). *)
(***************************************************************************)
SetValue == Cmd("Set", "//item/@value", None, None, <<Text("5")>>)
CsvTags == Cmd("Csv", "//item/@tags", Some(CsvAdd(",")), None, <<Text("new")>>)
CsvNoOp == Cmd("Csv", "//item/@tags", None, None, <<Text("old")>>)
AppendItem ==
    Cmd("Append", "/items", None, None,
        <<StartEv("item", <<<<"name", "x">>>>), EndEv("item")>>)
RemoveBlock == Cmd("Remove", "/blocks/block", None, None, <<>>)
Note == Cmd("Comment", "", None, None, <<Text("note")>>)
SetName ==
    Cmd("SetAttribute", "//item", None, Some("name"), <<Text("a"), Text("b")>>)

XmlFile(dir, base, state, cmds) ==
    [dir |-> dir, base |-> base, doc |-> state, commands |-> cmds]
OtherFile(dir, base, lines) == [dir |-> dir, base |-> base, lines |-> lines]
Line(text, eol) == [text |-> text, eol |-> eol]

Dir(parent, name, hasConfig, modinfo, xmls, others) ==
    [parent |-> parent, name |-> name, hasConfig |-> hasConfig,
     modinfo |-> modinfo, xmls |-> xmls, others |-> others]

Disk ==
    <<  \* 1: /p/A
        Dir("/p", <<1>>, TRUE, "ok",
            <<XmlFile("", "items.xml", "ok", <<SetValue>>)>>,
            <<OtherFile("", "Localization.txt",
                        <<Line("Key,english", "\r\n"), Line("a,Apple", "\r\n")>>)>>),
        \* 2: /p/B
        Dir("/p", <<2>>, TRUE, "absent",
            <<XmlFile("", "blocks.xml", "ok", <<Note, RemoveBlock>>),
              XmlFile("", "items.xml", "ok", <<CsvTags>>)>>,
            <<OtherFile("", "Localization.txt",
                        <<Line("Key,english", "\n"), Line("b,Bread", "")>>),
              OtherFile("", "icon.dll", <<Line("B", "")>>)>>),
        \* 3: /q/A, same name as 1, one base name in two subdirectories
        Dir("/q", <<1>>, TRUE, "ok",
            <<XmlFile("a", "items.xml", "ok", <<AppendItem>>),
              XmlFile("b", "items.xml", "ok", <<RemoveBlock>>)>>,
            <<OtherFile("", "icon.dll", <<Line("A", "")>>)>>),
        \* 4: /p/AB, no Config directory
        Dir("/p", <<1, 2>>, FALSE, "ok", <<>>, <<>>),
        \* 5: /p/C
        Dir("/p", <<3>>, TRUE, "ok",
            <<XmlFile("", "items.xml", "ok", <<SetName>>)>>,
            <<OtherFile("", "Localization.txt",
                        <<Line("Key,english", "\r\n"), Line("c,Cherry", "\n"),
                          Line("d,Date", "")>>)>>),
        \* 6: /p/D, a csv element without op
        Dir("/p", <<4>>, TRUE, "ok",
            <<XmlFile("", "recipes.xml", "ok", <<CsvNoOp>>)>>, <<>>),
        \* 7: /p/E, a malformed instruction file
        Dir("/p", <<5>>, TRUE, "ok",
            <<XmlFile("", "items.xml", "malformed", <<>>)>>, <<>>)
    >>

Paths == 1..Len(Disk)

(***************************************************************************)
(* Modlet: src/src/lib.rs, and load: src/src/dmt/commands/package.rs       *)
(***************************************************************************)
\* ModletXML::filename: the last component of the file's path.
filename(xml) == xml.base

\* Modlet::new(path): the metadata, then every globbed file in turn.
Modlet_new(path) ==
    LET d == Disk[path] IN
    IF d.modinfo = "bad" THEN [outcome |-> "Err", modlet |-> None]
    ELSE IF \E i \in 1..Len(d.xmls) : d.xmls[i].doc = "malformed"
         THEN [outcome |-> "Panic", modlet |-> None]
    ELSE [outcome |-> "Ok", modlet |-> Some(path)]

\* The modinfo field Modlet::new gives the Modlet: the parsed ModInfo.xml,
\* or Modinfo::new() when the modlet has none.
Modlet_modinfo(path) ==
    IF Disk[path].modinfo = "absent" THEN "Modinfo::new()" ELSE "parsed"

\* A variant of load without the test of the Config directory.
load_unchecked(path) == Modlet_new(path)

\* load(path, ..): the Config directory must exist.
load(path) ==
    IF ~Disk[path].hasConfig THEN [outcome |-> "Err", modlet |-> None]
    ELSE Modlet_new(path)

\* Modlet::name: the last component of the modlet's path.
name(m) == Disk[m].name
xmls(m) == Disk[m].xmls
others(m) == Disk[m].others

\* Modlet::xml_files
xml_files(m) == [i \in 1..Len(xmls(m)) |-> filename(xmls(m)[i])]

RECURSIVE WriteXmls(_, _)
WriteXmls(xs, file) ==
    IF xs = <<>> THEN Wrote(<<>>)
    ELSE IF filename(Head(xs)) # file THEN WriteXmls(Tail(xs), file)
    ELSE LET h == WriteAll(Head(xs).commands) IN
         IF h.panic THEN h
         ELSE LET t == WriteXmls(Tail(xs), file) IN
              [panic |-> t.panic, events |-> h.events \o t.events]

\* The first instruction file with the given filename alone.
write_first(m, file) ==
    LET xs == SelectSeq(xmls(m), LAMBDA x : filename(x) = file)
    IN  IF xs = <<>> THEN Wrote(<<>>) ELSE WriteAll(Head(xs).commands)

\* Modlet::write_xmls: every instruction file of the modlet whose filename
\* is the given one, in the order they were loaded.
write_xmls(m, file) == WriteXmls(xmls(m), file)

(***************************************************************************)
(* Package engine, pure parts: src/src/dmt/commands/package.rs             *)
(***************************************************************************)
\* Ord for the file names that occur (BTreeMap<PathBuf, _> key order).
PathRank(f) ==
    CASE f = "blocks.xml" -> 1
      [] f = "items.xml" -> 2
      [] f = "recipes.xml" -> 3
      [] OTHER -> 4

\* The par_iter().fold(..).reduce(..) of run: rayon folds each split of
\* the path list left to right and reduce appends the splits' vectors in
\* the order of the list, whatever the order the loads finish in.
reduce_by_completion(list, outcome, completion) ==
    LET done == SelectSeq(completion, LAMBDA i : outcome[i] = "Ok")
    IN  [k \in 1..Len(done) |-> list[done[k]]]

reduce(list, outcome, completion) ==
    LET idx == SelectSeq([i \in 1..Len(list) |-> i], LAMBDA i : outcome[i] = "Ok")
    IN  [k \in 1..Len(idx) |-> list[idx[k]]]

RECURSIVE InsertByName(_, _)
InsertByName(sorted, m) ==
    IF sorted = <<>> THEN <<m>>
    ELSE IF StrLess(name(m), name(Head(sorted))) THEN <<m>> \o sorted
    ELSE <<Head(sorted)>> \o InsertByName(Tail(sorted), m)

RECURSIVE StableSort(_)
StableSort(ms) ==
    IF ms = <<>> THEN <<>>
    ELSE InsertByName(StableSort(SubSeq(ms, 1, Len(ms) - 1)), ms[Len(ms)])

unsorted(ms) == ms

RECURSIVE InsertBeforeEqual(_, _)
InsertBeforeEqual(sorted, m) ==
    IF sorted = <<>> THEN <<m>>
    ELSE IF StrLeq(name(m), name(Head(sorted))) THEN <<m>> \o sorted
    ELSE <<Head(sorted)>> \o InsertBeforeEqual(Tail(sorted), m)

RECURSIVE sort_ties_reversed(_)
\* A sort by name that puts the later of two equal names first.
sort_ties_reversed(ms) ==
    IF ms = <<>> THEN <<>>
    ELSE InsertBeforeEqual(sort_ties_reversed(SubSeq(ms, 1, Len(ms) - 1)), ms[Len(ms)])

\* loaded_modlets.sort_by(|a, b| a.name().cmp(&b.name())): a stable sort.
sort_by_name(ms) == StableSort(ms)

Entry(file, ms) == [file |-> file, modlets |-> ms]

RECURSIVE MapInsert(_, _, _)
\* files.entry(file): push onto the entry of an occupied key, else insert a
\* new entry at the key's place.
MapInsert(map, file, m) ==
    IF map = <<>> THEN <<Entry(file, <<m>>)>>
    ELSE IF Head(map).file = file
         THEN <<Entry(file, Append(Head(map).modlets, m))>> \o Tail(map)
    ELSE IF PathRank(file) < PathRank(Head(map).file)
         THEN <<Entry(file, <<m>>)>> \o map
    ELSE <<Head(map)>> \o MapInsert(Tail(map), file, m)

RECURSIVE MapInsertAll(_, _, _)
MapInsertAll(map, fs, m) ==
    IF fs = <<>> THEN map
    ELSE MapInsertAll(MapInsert(map, Head(fs), m), Tail(fs), m)

RECURSIVE FileMapFrom(_, _)
FileMapFrom(map, ms) ==
    IF ms = <<>> THEN map
    ELSE FileMapFrom(MapInsertAll(map, xml_files(Head(ms)), Head(ms)), Tail(ms))

RECURSIVE ungrouped(_)
ungrouped(ms) ==
    IF ms = <<>> THEN <<>>
    ELSE [i \in 1..Len(xml_files(Head(ms))) |->
              Entry(xml_files(Head(ms))[i], <<Head(ms)>>)]
         \o ungrouped(Tail(ms))

\* file_map(modlets): the file-contribution map, in key order.
file_map(ms) == FileMapFrom(<<>>, ms)

\* The provenance comment of package().
Included(m) == Ev("comment", " Included from {} ", name(m), <<>>)

RECURSIVE PackageBody(_, _)
\* The for loop of package(): per modlet the comment, then write_xmls.
PackageBody(file, ms) ==
    IF ms = <<>> THEN Wrote(<<>>)
    ELSE LET h == write_xmls(Head(ms), file) IN
         IF h.panic THEN [panic |-> TRUE, events |-> <<Included(Head(ms))>> \o h.events]
         ELSE LET t == PackageBody(file, Tail(ms)) IN
              [panic |-> t.panic,
               events |-> <<Included(Head(ms))>> \o h.events \o t.events]

\* output_modlet.join("Config").join(file)
config_file(file) == <<"", file>>

\* destination.join(file.strip_prefix(&self.path)) of write_files
dst(f) == <<f.dir, f.base>>

\* to_ascii_lowercase() == "localization.txt"
is_localization(base) == base \in {"localization.txt", "Localization.txt"}

RECURSIVE OtherFilesOf(_)
\* the files write_files meets over "for modlet in loaded_modlets", in order
OtherFilesOf(ms) ==
    IF ms = <<>> THEN <<>> ELSE others(Head(ms)) \o OtherFilesOf(Tail(ms))

RECURSIVE AppendLines(_, _)
\* write!(writer, "{}\r\n", line) for every line onto the end of dest
AppendLines(dest, lines) ==
    IF lines = <<>> THEN dest
    ELSE LET l == Line(Head(lines).text, "\r\n") IN
         IF dest # <<>> /\ dest[Len(dest)].eol = ""
         THEN AppendLines(SubSeq(dest, 1, Len(dest) - 1)
                            \o <<Line(dest[Len(dest)].text \o l.text, l.eol)>>,
                          Tail(lines))
         ELSE AppendLines(Append(dest, l), Tail(lines))

(***************************************************************************)
(* The output modlet directory                                             *)
(***************************************************************************)
\* exists: the output directory; modinfo, readme: its ModInfo.xml and
\* README.md; config: its Config entry ("absent", "dir" or "file"); files:
\* the files under Config, by path relative to Config.
Tree(exists, modinfo, readme, config, files) ==
    [exists |-> exists, modinfo |-> modinfo, readme |-> readme,
     config |-> config, files |-> files]

NoFiles == [p \in {} |-> <<>>]

\* File::create + writes, fs::copy: the file at p now holds content.
WithFile(files, p, content) ==
    [q \in DOMAIN files \cup {p} |-> IF q = p THEN content ELSE files[q]]

ModInfoPath == <<"..", "ModInfo.xml">>

Absent == Tree(FALSE, FALSE, FALSE, "absent", NoFiles)
Stale ==
    Tree(TRUE, TRUE, TRUE, "dir",
         [p \in {<<"", "items.xml">>, <<"", "old.xml">>, <<"", "icon.dll">>} |->
             IF p = <<"", "icon.dll">> THEN <<Line("old", "")>>
             ELSE <<CommentEv("stale")>>])
ConfigIsFile == Tree(TRUE, TRUE, FALSE, "file", NoFiles)

Env(t, cwd, bad) == [tree |-> t, inCwd |-> cwd, unwritable |-> bad]

\* The environments of a run: the output directory before the run, whether
\* the output path is ./<its file name>, and the destinations that the file
\* system refuses to create.
Envs ==
    {Env(Absent, TRUE, {}), Env(Absent, FALSE, {}), Env(Absent, TRUE, {ModInfoPath}),
     Env(Stale, TRUE, {}), Env(Stale, TRUE, {config_file("items.xml")}),
     Env(Stale, TRUE, {<<"", "Localization.txt">>}),
     Env(Absent, TRUE, {<<"", "icon.dll">>}),
     Env(ConfigIsFile, TRUE, {})}

PathLists ==
    UNION {SetToSeqs(S) : S \in {T \in SUBSET Paths : Cardinality(T) \in 1..MaxModlets}}

(***************************************************************************)
(* Metadata: src/modinfo/src/lib.rs                                        *)
(*                                                                         *)
(* The u64 parts of a semver::Version are numbers of Bits bits.  A         *)
(* ModInfo document is its xml declaration, its root element and its child *)
(* elements, with the indentation in front of each line; an attribute      *)
(* value is the sequence of its words.                                     *)
(***************************************************************************)
\* Width of major, minor and patch.
Bits == 3

Modulus == 2^Bits

Version(major, minor, patch, pre, build) ==
    [major |-> major, minor |-> minor, patch |-> patch, pre |-> pre, build |-> build]

\* self.x += 1 on a u64: the sum, a panic where the build checks overflow,
\* the wrapped sum where it does not.
add_one(x, checks) ==
    IF x + 1 < Modulus THEN [panic |-> FALSE, value |-> x + 1]
    ELSE IF checks THEN [panic |-> TRUE, value |-> x]
    ELSE [panic |-> FALSE, value |-> (x + 1) % Modulus]

\* VersionTools for Version
bump_major(v, checks) ==
    LET s == add_one(v.major, checks) IN
    [panic |-> s.panic,
     version |-> IF s.panic THEN v ELSE Version(s.value, 0, 0, "", "")]

bump_minor(v, checks) ==
    LET s == add_one(v.minor, checks) IN
    [panic |-> s.panic,
     version |-> IF s.panic THEN v ELSE Version(v.major, s.value, 0, "", "")]

bump_patch(v, checks) ==
    LET s == add_one(v.patch, checks) IN
    [panic |-> s.panic,
     version |-> IF s.panic THEN v ELSE Version(v.major, v.minor, s.value, "", "")]

\* The text of a version as a document gives it: its numeric parts, then
\* -pre and +build where present.
VText(nums, pre, build) == [nums |-> nums, pre |-> pre, build |-> build]

Suffix(pre, build) ==
    (IF pre = "" THEN "" ELSE "-" \o pre) \o (IF build = "" THEN "" ELSE "+" \o build)

version_text(t) ==
    Join([i \in 1..Len(t.nums) |-> ToString(t.nums[i])], ".") \o Suffix(t.pre, t.build)

\* The numeric parts alone.
Version_core(v) ==
    ToString(v.major) \o "." \o ToString(v.minor) \o "." \o ToString(v.patch)

\* impl Display for semver::Version
Version_to_string(v) ==
    ToString(v.major) \o "." \o ToString(v.minor) \o "." \o ToString(v.patch)
        \o Suffix(v.pre, v.build)

\* lenient_semver::parse_into::<Version>: missing minor and patch are 0,
\* numeric parts after the third go to the build metadata.
parse_into(t) ==
    LET n == Len(t.nums)
        part(i) == IF i <= n THEN t.nums[i] ELSE 0
        extra == Join([i \in 1..(IF n > 3 THEN n - 3 ELSE 0) |-> ToString(t.nums[i + 3])], ".")
    IN  Version(part(1), part(2), part(3), t.pre,
                IF extra = "" THEN t.build
                ELSE IF t.build = "" THEN extra ELSE extra \o "." \o t.build)

\* One child element: its name, its value attribute, its compat attribute
\* and, for a Version element, the parts its value is the text of.
Elem(tag, value, compat, vtext) ==
    [name |-> tag, value |-> value, compat |-> compat, vtext |-> vtext]

NoVText == VText(<<>>, "", "")

Field(tag, value) == Elem(tag, value, None, NoVText)

VersionElem(t, compat) == Elem("Version", <<version_text(t)>>, compat, t)

ModinfoDoc(decl, root, elems, indent) ==
    [decl |-> decl, root |-> root, elems |-> elems, indent |-> indent]

\* s.split_whitespace().collect(): no indentation, the words of every value
\* run together.
strip_ws(d) ==
    [decl |-> d.decl, root |-> d.root,
     elems |-> [i \in 1..Len(d.elems) |->
                   [name |-> d.elems[i].name,
                    value |-> Join(d.elems[i].value, ""),
                    compat |-> d.elems[i].compat]]]

\* Modinfo::default()
Modinfo_default ==
    [author |-> None, description |-> None, display_name |-> None, name |-> None,
     version |-> Version(0, 1, 0, "", ""), compat |-> None, website |-> None,
     meta |-> "V1"]

\* The Empty arm of from_string on one child element.
set_field(m, e) ==
    CASE e.name = "Author" -> [m EXCEPT !.author = Some(e.value)]
      [] e.name = "Description" -> [m EXCEPT !.description = Some(e.value)]
      [] e.name = "DisplayName" -> [m EXCEPT !.display_name = Some(e.value)]
      [] e.name = "Name" -> [m EXCEPT !.name = Some(e.value)]
      [] e.name = "Version" ->
            [m EXCEPT !.version = parse_into(e.vtext), !.compat = e.compat]
      [] e.name = "Website" -> [m EXCEPT !.website = Some(e.value)]
      [] OTHER -> m

RECURSIVE set_fields(_, _)
set_fields(m, es) ==
    IF es = <<>> THEN m ELSE set_fields(set_field(m, Head(es)), Tail(es))

\* FromString for Modinfo: a root element named xml makes the Modinfo V2.
from_string(d) ==
    set_fields([Modinfo_default EXCEPT !.meta = IF d.root = "xml" THEN "V2" ELSE "V1"],
               d.elems)

\* get_value_for(field) or String::new()
value_of(field) == IF field = None THEN <<>> ELSE field[1]

\* ToString for Modinfo: the declaration for V2, the root element and the
\* fields in the writer's order, indented by 2.
Modinfo_to_string(m) ==
    LET is_v2 == m.meta = "V2"
        name_ == <<Field("Name", value_of(m.name))>>
        display == IF is_v2 THEN <<Field("DisplayName", value_of(m.display_name))>>
                   ELSE <<>>
        version == <<Elem("Version", <<Version_to_string(m.version)>>, m.compat,
                          NoVText)>>
        rest == <<Field("Description", value_of(m.description)),
                  Field("Author", value_of(m.author))>>
        site == IF is_v2 THEN <<Field("Website", value_of(m.website))>> ELSE <<>>
    IN  ModinfoDoc(IF is_v2 THEN Some("UTF-8") ELSE None,
                   IF is_v2 THEN "xml" ELSE "ModInfo",
                   name_ \o display \o version \o rest \o site, 2)

\* The documents read: V1 and V2, the Version with or without compat, in the
\* writer's order or with the Version last, with or without an Author, the
\* version text in full or short.
VTexts ==
    {VText(<<1, 0, 0>>, "", ""), VText(<<1>>, "", ""), VText(<<0, 1>>, "", ""),
     VText(<<1, 0, 0, 0>>, "", ""), VText(<<1, 2, 3>>, "alpha", "build"),
     VText(<<Modulus - 1, Modulus - 1, Modulus - 1>>, "", "")}

Children(root, t, compat, last, author) ==
    LET head == <<Field("Name", <<"SomeInternalName">>)>>
                \o (IF root = "xml"
                    THEN <<Field("DisplayName", <<"Official", "Mod", "Name">>)>>
                    ELSE <<>>)
        body == <<Field("Description", <<"Mod", "to", "show", "format">>)>>
                \o (IF author THEN <<Field("Author", <<"Name">>)>> ELSE <<>>)
                \o (IF root = "xml" THEN <<Field("Website", <<"HP">>)>> ELSE <<>>)
    IN  IF last THEN head \o body \o <<VersionElem(t, compat)>>
        ELSE head \o <<VersionElem(t, compat)>> \o body

ModinfoDocs ==
    {ModinfoDoc(h[1], h[2], Children(h[2], t, compat, last, author), indent) :
        h \in {<<None, "ModInfo">>, <<Some("UTF-8"), "xml">>, <<Some("utf-8"), "xml">>},
        t \in VTexts,
        compat \in {None, Some("A99")},
        last \in BOOLEAN,
        author \in BOOLEAN,
        indent \in {0, 4}}

(***************************************************************************)
(* State                                                                   *)
(***************************************************************************)
VARIABLES
    modlets,        \* run's argument: the list of modlet paths
    output0,        \* the output tree before the run
    inCwd,          \* the output path is ./<its file name>
    unwritable,     \* destinations whose creation fails
    tree,           \* the output tree
    stray,          \* init::create made ./<name>, which is not the output path
    pc,             \* where run is
    outcome,        \* per path of the list: the load's outcome, or "pending"
    completion,     \* while the loads run: the indices of the finished ones, in order
    loaded_modlets, \* the Vec<Modlet> of run
    files,          \* the file-contribution map
    task,           \* per entry of files: the merge task's position
    next,           \* index of the next passthrough file
    result,         \* how run ended: "none", "Ok", "Err(..)" or "Panic"
    doc,            \* load_xml: the events of the document being read
    pos,            \* load_xml: index of the next event
    stack,          \* load_xml: the open commands
    modlet,         \* load_xml: the InstructionSet being built
    start_tag,      \* load_xml: name of the wrapper element met
    commands,       \* load_xml: the Commands pushed so far
    status,         \* load_xml: "idle", "scan", "Ok" or "Panic"
    self,           \* Command::write: the Command written
    writer,         \* Command::write: the events on the sink
    wrote,          \* Command::write: "idle", "call", "Ok" or "Panic"
    xml,            \* from_string: the ModInfo document read
    modinfo,        \* the Modinfo
    written,        \* to_string: the String returned, or None
    mpc,            \* metadata: "idle", "read", "ready", "done" or "Panic"
    bumps           \* number of version bumps made

parser == <<doc, pos, stack, modlet, start_tag, commands, status>>

emitter == <<self, writer, wrote>>

metadata == <<xml, modinfo, written, mpc, bumps>>

\* What a step of the package run leaves alone.
elsewhere == <<parser, emitter, metadata>>

vars == <<modlets, output0, inCwd, unwritable, tree, stray, pc, outcome,
          completion, loaded_modlets, files, task, next, result, parser,
          emitter, metadata>>

env == <<modlets, output0, inCwd, unwritable>>

\* No metadata is read or written.
MetadataIdle ==
    /\ xml = ModinfoDoc(None, "", <<>>, 0)
    /\ modinfo = Modinfo_default
    /\ written = None
    /\ mpc = "idle"
    /\ bumps = 0

Init ==
    /\ modlets \in PathLists
    /\ \E e \in Envs :
          output0 = e.tree /\ inCwd = e.inCwd /\ unwritable = e.unwritable
    /\ tree = output0
    /\ stray = FALSE
    /\ pc = "load"
    /\ outcome = [i \in 1..Len(modlets) |-> "pending"]
    /\ completion = <<>>
    /\ loaded_modlets = <<>>
    /\ files = <<>>
    /\ task = <<>>
    /\ next = 1
    /\ result = "none"
    /\ doc = <<>>
    /\ pos = 1
    /\ stack = <<>>
    /\ modlet = InstructionSet_new
    /\ start_tag = ""
    /\ commands = <<>>
    /\ status = "idle"
    /\ self = NoOp
    /\ writer = <<>>
    /\ wrote = "idle"
    /\ MetadataIdle

(***************************************************************************)
(* run: the parallel load (package.rs 143-173)                             *)
(***************************************************************************)
\* One closure call of the fold: load(path) to its outcome.
LoadTask(i) ==
    /\ pc = "load"
    /\ outcome[i] = "pending"
    /\ outcome' = [outcome EXCEPT ![i] = load(modlets[i]).outcome]
    /\ completion' = Append(completion, i)
    /\ UNCHANGED <<env, elsewhere, tree, stray, pc, loaded_modlets, files, task,
                   next, result>>

\* Every closure returned: the reduce yields loaded_modlets.
LoadJoin ==
    /\ pc = "load"
    /\ \A i \in DOMAIN outcome : outcome[i] \in {"Ok", "Err"}
    /\ loaded_modlets' = reduce(modlets, outcome, completion)
    /\ completion' = <<>>
    /\ pc' = "check"
    /\ UNCHANGED <<env, elsewhere, tree, stray, outcome, files, task, next, result>>

\* A closure panicked (load_xml): the panic leaves the parallel iterator
\* and run; loads not yet started may never start.
LoadUnwind ==
    /\ pc = "load"
    /\ \E i \in DOMAIN outcome : outcome[i] = "Panic"
    /\ pc' = "crashed"
    /\ result' = "Panic"
    /\ UNCHANGED <<env, elsewhere, tree, stray, outcome, completion, loaded_modlets, files,
                   task, next>>

\* (loaded_modlets.len() as u64) == modlet_count
load_count_check_any == Len(loaded_modlets) > 0

load_count_check == Len(loaded_modlets) = Len(modlets)

\* package.rs 175: every load succeeded, the run goes on.
CheckPassed ==
    /\ pc = "check"
    /\ load_count_check
    /\ pc' = "create"
    /\ UNCHANGED <<env, elsewhere, tree, stray, outcome, completion, loaded_modlets, files,
                   task, next, result>>

\* package.rs 264-276: the else branch prints the count of failed modlets
\* and run returns Ok(()).
CheckFailed ==
    /\ pc = "check"
    /\ ~load_count_check
    /\ pc' = "done"
    /\ result' = "Ok"
    /\ UNCHANGED <<env, elsewhere, tree, stray, outcome, completion, loaded_modlets, files,
                   task, next>>

(***************************************************************************)
(* run: the output directory (package.rs 176-208, init.rs 46-62)           *)
(***************************************************************************)
\* init::create(name, None): ./name/Config/.keep, ./name/README.md and
\* ./name/ModInfo.xml, in this order; the first failure is returned.
create(t) ==
    IF ModInfoPath \in unwritable
    THEN Tree(TRUE, FALSE, TRUE, "dir", t.files)
    ELSE Tree(TRUE, TRUE, TRUE, "dir", t.files)

\* package.rs 177-179
CreateOutput ==
    /\ pc = "create"
    /\ IF tree.exists
       THEN UNCHANGED <<tree, stray>>
       ELSE IF inCwd
            THEN tree' = create(tree) /\ stray' = stray
            ELSE tree' = tree /\ stray' = TRUE
    /\ IF ~tree.exists /\ ModInfoPath \in unwritable
       THEN pc' = "done" /\ result' = "Err(WriteError)"
       ELSE pc' = "clean" /\ result' = result
    /\ UNCHANGED <<env, elsewhere, outcome, completion, loaded_modlets, files, task, next>>

\* A removal that leaves the directory's entries in place.
remove_nothing(t) == t

\* fs::remove_dir_all(&config_dir)
remove_dir_all(t) == Tree(t.exists, t.modinfo, t.readme, "absent", NoFiles)

\* package.rs 181-208: the Config directory is removed, the modlets are
\* sorted and grouped (the second removal finds nothing to remove).
CleanConfig ==
    /\ pc = "clean"
    /\ tree.config # "file"
    /\ tree' = IF tree.config = "dir" THEN remove_dir_all(tree) ELSE tree
    /\ loaded_modlets' = sort_by_name(loaded_modlets)
    /\ files' = file_map(loaded_modlets')
    /\ task' = [t \in 1..Len(files') |-> "pending"]
    /\ pc' = "merge"
    /\ UNCHANGED <<env, elsewhere, stray, outcome, completion, next, result>>

\* package.rs 184-189: Config exists and is not a directory.
ConfigNotDir ==
    /\ pc = "clean"
    /\ tree.config = "file"
    /\ pc' = "done"
    /\ result' = "Err(Config directory is not a directory)"
    /\ UNCHANGED <<env, elsewhere, tree, stray, outcome, completion, loaded_modlets, files,
                   task, next>>

(***************************************************************************)
(* run: the parallel merge-write (package.rs 211-235, 39-79)               *)
(***************************************************************************)
Bundle == <<StartEv("bundle", <<>>)>>

\* package() up to the first write_event: the parent directory is made,
\* the file is created empty and the root element is opened.
MergeOpen(t) ==
    /\ pc = "merge"
    /\ task[t] = "pending"
    /\ config_file(files[t].file) \notin unwritable
    /\ tree' = Tree(TRUE, tree.modinfo, tree.readme, "dir",
                    WithFile(tree.files, config_file(files[t].file), Bundle))
    /\ task' = [task EXCEPT ![t] = "open"]
    /\ UNCHANGED <<env, elsewhere, stray, pc, outcome, completion, loaded_modlets, files,
                   next, result>>

closure_propagates(packaged) == packaged

\* The closure handed to try_for_each (package.rs 213-235): both arms of
\* the match on package()'s result end in Ok(()).
closure(packaged) == "Ok"

\* File::create fails and package() returns Err; try_for_each would stop
\* the run at a closure that returns Err.
MergeFail(t) ==
    /\ pc = "merge"
    /\ task[t] = "pending"
    /\ config_file(files[t].file) \in unwritable
    /\ tree' = Tree(TRUE, tree.modinfo, tree.readme, "dir", tree.files)
    /\ task' = [task EXCEPT ![t] = "failed"]
    /\ IF closure("Err") = "Ok"
       THEN pc' = pc /\ result' = result
       ELSE pc' = "done" /\ result' = "Err(write)"
    /\ UNCHANGED <<env, elsewhere, stray, outcome, completion, loaded_modlets, files, next>>

\* The for loop of package() and the closing of the root element; a
\* Command whose write panics ends the task with the file as written so far.
MergeWrite(t) ==
    /\ pc = "merge"
    /\ task[t] = "open"
    /\ LET body == PackageBody(files[t].file, files[t].modlets)
           p == config_file(files[t].file)
       IN  IF body.panic
           THEN /\ tree' = [tree EXCEPT !.files =
                               WithFile(@, p, tree.files[p] \o body.events)]
                /\ task' = [task EXCEPT ![t] = "panicked"]
           ELSE /\ tree' = [tree EXCEPT !.files =
                               WithFile(@, p, tree.files[p] \o body.events
                                                 \o <<EndEv("bundle")>>)]
                /\ task' = [task EXCEPT ![t] = "done"]
    /\ UNCHANGED <<env, elsewhere, stray, pc, outcome, completion, loaded_modlets, files,
                   next, result>>

\* A variant of the join that lets run go on once one task has ended.
joined_any(ts) == \E t \in DOMAIN ts : ts[t] \in {"done", "failed"}

\* try_for_each returns once every closure call has returned.
joined(ts) == \A t \in DOMAIN ts : ts[t] \in {"done", "failed"}

\* package.rs 235: every closure returned Ok(()).
MergeJoin ==
    /\ pc = "merge"
    /\ joined(task)
    /\ pc' = "files"
    /\ UNCHANGED <<env, elsewhere, tree, stray, outcome, completion, loaded_modlets, files,
                   task, next, result>>

\* A merge task panicked: once the tasks under way have ended the panic
\* leaves the parallel iterator and run; tasks not yet started may never start.
MergeUnwind ==
    /\ pc = "merge"
    /\ \E t \in DOMAIN task : task[t] = "panicked"
    /\ \A t \in DOMAIN task : task[t] # "open"
    /\ pc' = "crashed"
    /\ result' = "Panic"
    /\ UNCHANGED <<env, elsewhere, tree, stray, outcome, completion, loaded_modlets, files,
                   task, next>>

(***************************************************************************)
(* run: the passthrough files (package.rs 246-252, lib.rs 98-124)          *)
(***************************************************************************)
\* A variant of write_files that copies the file whether dst exists or not.
copy_over(t, f, bad) ==
    IF dst(f) \in bad
    THEN [err |-> TRUE, tree |-> Tree(TRUE, t.modinfo, t.readme, "dir", t.files)]
    ELSE [err |-> FALSE,
          tree |-> Tree(TRUE, t.modinfo, t.readme, "dir",
                        WithFile(t.files, dst(f), f.lines))]

\* One turn of the loop of write_files on the tree t, for the file f: the
\* tree it leaves and whether the turn returned an Err.
write_file(t, f, bad) ==
    IF dst(f) \notin DOMAIN t.files
    THEN IF dst(f) \in bad
         THEN \* fs::create_dir_all(..)?; fs::copy(src, dst)?
              [err |-> TRUE, tree |-> Tree(TRUE, t.modinfo, t.readme, "dir", t.files)]
         ELSE [err |-> FALSE,
               tree |-> Tree(TRUE, t.modinfo, t.readme, "dir",
                             WithFile(t.files, dst(f), f.lines))]
    ELSE IF is_localization(f.base)
         THEN \* reader.lines().skip(1), each written with CRLF
              [err |-> FALSE,
               tree |-> [t EXCEPT !.files =
                            WithFile(@, dst(f), AppendLines(t.files[dst(f)], Tail(f.lines)))]]
         ELSE [err |-> FALSE, tree |-> t]

\* modlet.write_files(output_modlet)? : an Err of write_files is run's result.
WriteFile ==
    /\ pc = "files"
    /\ next <= Len(OtherFilesOf(loaded_modlets))
    /\ LET r == write_file(tree, OtherFilesOf(loaded_modlets)[next], unwritable) IN
       /\ tree' = r.tree
       /\ IF r.err
          THEN pc' = "done" /\ result' = "Err(copy)" /\ next' = next
          ELSE pc' = pc /\ result' = result /\ next' = next + 1
    /\ UNCHANGED <<env, elsewhere, stray, outcome, completion, loaded_modlets, files, task>>

\* package.rs 253-276: the loop is over, run returns Ok(()).
Finish ==
    /\ pc = "files"
    /\ next > Len(OtherFilesOf(loaded_modlets))
    /\ pc' = "done"
    /\ result' = "Ok"
    /\ UNCHANGED <<env, elsewhere, tree, stray, outcome, completion, loaded_modlets, files,
                   task, next>>

Next ==
    \/ \E i \in DOMAIN outcome : LoadTask(i)
    \/ LoadJoin
    \/ LoadUnwind
    \/ CheckPassed
    \/ CheckFailed
    \/ CreateOutput
    \/ CleanConfig
    \/ ConfigNotDir
    \/ \E t \in DOMAIN task : MergeOpen(t)
    \/ \E t \in DOMAIN task : MergeFail(t)
    \/ \E t \in DOMAIN task : MergeWrite(t)
    \/ MergeJoin
    \/ MergeUnwind
    \/ WriteFile
    \/ Finish

Spec == Init /\ [][Next]_vars

(***************************************************************************)
(* load_xml as a process: one action per arm of its match.                 *)
(***************************************************************************)
engine == <<modlets, output0, inCwd, unwritable, tree, stray, pc, outcome,
            completion, loaded_modlets, files, task, next, result>>

ParserInit ==
    /\ doc \in Documents(MaxEvents)
    /\ pos = 1
    /\ stack = Begin.stack
    /\ modlet = Begin.modlet
    /\ start_tag = Begin.start_tag
    /\ commands = Begin.commands
    /\ status = Begin.status
    /\ modlets = <<>>
    /\ output0 = Absent
    /\ inCwd = TRUE
    /\ unwritable = {}
    /\ tree = Absent
    /\ stray = FALSE
    /\ pc = "idle"
    /\ outcome = <<>>
    /\ completion = <<>>
    /\ loaded_modlets = <<>>
    /\ files = <<>>
    /\ task = <<>>
    /\ next = 1
    /\ result = "none"
    /\ self = NoOp
    /\ writer = <<>>
    /\ wrote = "idle"
    /\ MetadataIdle

Locals == Scan(stack, modlet, start_tag, commands, status)

\* The reader yields an event of the type and the arm s runs on it.
Arm(s) ==
    /\ stack' = s.stack
    /\ modlet' = s.modlet
    /\ start_tag' = s.start_tag
    /\ commands' = s.commands
    /\ status' = s.status
    /\ pos' = pos + 1
    /\ UNCHANGED <<doc, engine, emitter, metadata>>

Reads(type) == status = "scan" /\ pos <= Len(doc) /\ doc[pos].type = type

ReadComment == Reads("comment") /\ Arm(on_comment(Locals, doc[pos]))

ReadStart == Reads("start") /\ Arm(on_start(Locals, doc[pos]))

ReadEmpty == Reads("empty") /\ Arm(on_empty(Locals, doc[pos]))

ReadText == Reads("text") /\ Arm(on_text(Locals, doc[pos]))

ReadEnd == Reads("end") /\ Arm(on_end(Locals, doc[pos]))

ReadErr == Reads("err") /\ Arm(on_panic(Locals))

ReadOther == Reads("decl") /\ Arm(on_panic(Locals))

ReadEof ==
    /\ status = "scan"
    /\ pos > Len(doc)
    /\ Arm(on_eof(Locals))

ParserNext ==
    \/ ReadComment
    \/ ReadStart
    \/ ReadEmpty
    \/ ReadText
    \/ ReadEnd
    \/ ReadErr
    \/ ReadOther
    \/ ReadEof

ParserSpec == ParserInit /\ [][ParserNext]_vars

(***************************************************************************)
(* The run as a function of its arguments and environment alone: the loads *)
(* in list order, the merges in key order, one after the other.            *)
(***************************************************************************)
SeqLoaded == SelectSeq(modlets, LAMBDA p : load(p).outcome = "Ok")

SeqCreated ==
    IF output0.exists \/ ~inCwd THEN output0 ELSE create(output0)

FullBundle(e) ==
    Bundle \o PackageBody(e.file, e.modlets).events \o <<EndEv("bundle")>>

RECURSIVE SeqMerge(_, _)
SeqMerge(t, es) ==
    IF es = <<>> THEN t
    ELSE LET made == Tree(TRUE, t.modinfo, t.readme, "dir", t.files) IN
         IF config_file(Head(es).file) \in unwritable
         THEN SeqMerge(made, Tail(es))
         ELSE SeqMerge([made EXCEPT !.files =
                           WithFile(@, config_file(Head(es).file), FullBundle(Head(es)))],
                       Tail(es))

RECURSIVE SeqFiles(_, _)
SeqFiles(t, fs) ==
    IF fs = <<>> THEN [tree |-> t, result |-> "Ok"]
    ELSE LET r == write_file(t, Head(fs), unwritable) IN
         IF r.err THEN [tree |-> r.tree, result |-> "Err(copy)"]
         ELSE SeqFiles(r.tree, Tail(fs))

SeqRun ==
    IF Len(SeqLoaded) # Len(modlets) THEN [tree |-> output0, result |-> "Ok"]
    ELSE IF ~output0.exists /\ ModInfoPath \in unwritable
         THEN [tree |-> SeqCreated, result |-> "Err(WriteError)"]
    ELSE IF SeqCreated.config = "file"
         THEN [tree |-> SeqCreated,
               result |-> "Err(Config directory is not a directory)"]
    ELSE LET sorted == StableSort(SeqLoaded)
             cleaned == IF SeqCreated.config = "dir"
                        THEN remove_dir_all(SeqCreated) ELSE SeqCreated
         IN  SeqFiles(SeqMerge(cleaned, FileMapFrom(<<>>, sorted)), OtherFilesOf(sorted))

(***************************************************************************)
(* Properties                                                              *)
(***************************************************************************)
Returned == result \notin {"none", "Panic"}

LoadFailed == \E i \in DOMAIN outcome : outcome[i] \in {"Err", "Panic"}

Dest(t) == config_file(files[t].file)

\* The modlet names of the provenance comments of a bundle, in file order.
Provenance(content) ==
    LET cs == SelectSeq(content, LAMBDA e : e.type = "comment" /\ e.who # <<>>)
    IN  [k \in 1..Len(cs) |-> cs[k].who]

InNameOrder(ns) == \A i, j \in 1..Len(ns) : i < j => StrLeq(ns[i], ns[j])

HasFile(m, file) == \E i \in 1..Len(xmls(m)) : filename(xmls(m)[i]) = file

\* The loaded modlets with an instruction file of that name, once each.
Contributors(file) == SelectSeq(loaded_modlets, LAMBDA m : HasFile(m, file))

RECURSIVE Contributions(_, _)
Contributions(ms, file) ==
    IF ms = <<>> THEN <<>>
    ELSE <<Included(Head(ms))>> \o write_xmls(Head(ms), file).events
         \o Contributions(Tail(ms), file)

\* C1: whenever a requested modlet has failed to load, the output tree is
\* the tree from before the run (and nothing was created in its stead).
C1_NoOutputOnLoadFailure == LoadFailed => tree = output0 /\ ~stray

C1_Witness ==
    /\ pc = "done" /\ LoadFailed
    /\ \E i \in DOMAIN outcome : outcome[i] = "Ok"
    /\ output0 = Stale /\ tree = Stale

\* C2: a run in which fewer modlets loaded than were requested does not end
\* in the success result.
C2_ShortLoadIsFailure ==
    (pc = "done" /\ Len(loaded_modlets) < Len(modlets)) => result # "Ok"

\* C3: in every bundle, written in part or in full, the provenance comments
\* are in lexicographic order of modlet name, and a finished bundle names
\* every modlet of the run that has the file.
C3_BundlesInNameOrder ==
    \A t \in DOMAIN task :
        task[t] \in {"open", "done", "panicked"} =>
            /\ InNameOrder(Provenance(tree.files[Dest(t)]))
            /\ task[t] = "done" =>
                   Range(Provenance(tree.files[Dest(t)]))
                     = {name(m) : m \in {p \in Range(modlets) : HasFile(p, files[t].file)}}

C3_Witness ==
    /\ modlets = <<5, 2, 1>>
    /\ \E t \in DOMAIN task :
          /\ task[t] = "done"
          /\ Provenance(tree.files[Dest(t)]) = <<<<1>>, <<2>>, <<3>>>>

C5_BundleShape ==
    \A t \in DOMAIN task :
        task[t] = "done" =>
            tree.files[Dest(t)] =
                Bundle \o Contributions(Contributors(files[t].file), files[t].file)
                       \o <<EndEv("bundle")>>

C7_LoadFailureIsolated ==
    pc # "load" => \A i \in DOMAIN outcome : outcome[i] \in {"Ok", "Err"}

\* C8: once the merge tasks of a run are over, every grouped path whose
\* destination can be written holds its bundle in full, whichever other
\* merge tasks failed to write, and keeps it to the end of the run.
C8_SiblingMergesComplete ==
    (pc \in {"files", "done"} /\ task # <<>>) =>
        \A t \in DOMAIN task :
            IF Dest(t) \in unwritable
            THEN task[t] = "failed" /\ Dest(t) \notin DOMAIN tree.files
            ELSE task[t] = "done" /\ tree.files[Dest(t)] = FullBundle(files[t])

C8_Witness ==
    /\ pc = "done" /\ result = "Ok"
    /\ \E t \in DOMAIN task : task[t] = "failed"
    /\ \E t \in DOMAIN task : task[t] = "done"

\* C9: a run that reaches the passthrough step goes through every
\* passthrough file and does not end with a copy failure as its result.
C9_PassthroughFailureSkipped ==
    (pc = "done" /\ result \in {"Ok", "Err(copy)"} /\ load_count_check) =>
        result = "Ok" /\ next > Len(OtherFilesOf(loaded_modlets))

\* C10: a run whose loads all succeeded ends with every merge task and every
\* passthrough file attempted and with the success result.
C10_CompletesAfterCheck ==
    (pc \in {"done", "crashed"} /\ \A i \in DOMAIN outcome : outcome[i] = "Ok") =>
        /\ result = "Ok"
        /\ DOMAIN task = DOMAIN file_map(loaded_modlets)
        /\ \A t \in DOMAIN task : task[t] \in {"done", "failed"}
        /\ next > Len(OtherFilesOf(loaded_modlets))

(***************************************************************************)
(* Properties of the instruction parser and writer                         *)
(***************************************************************************)
\* A Command sequence up to the structure the round trip keeps: no StartTag
\* entries, the text of a text command as the writer joins it.
Structure(cmds) ==
    LET kept == SelectSeq(cmds, LAMBDA c : c.kind # "StartTag")
    IN  [i \in 1..Len(kept) |->
            IF as_ref(kept[i].kind) \in TEXT_COMMANDS
            THEN [kept[i] EXCEPT !.values = <<Join(@, ",")>>]
            ELSE kept[i]]

\* C11: for every document the parser accepts, the writer completes on the
\* parsed Commands and parsing what it wrote yields the same Commands (kinds,
\* order, xpath, attribute, CSV operator, payload), StartTag entries aside.
C11_RoundTrip ==
    status = "Ok" =>
        LET w == serialize(commands) IN
        /\ ~w.panic
        /\ LET again == load_xml(read_back(w.events)) IN
           /\ again.status = "Ok"
           /\ Structure(again.commands) = Structure(commands)

\* The events before the one at index k.
Before(k) == SubSeq(doc, 1, k - 1)

\* Index of the end tag that closes the element opened at index i, or 0.
Matching(i) ==
    LET closes == {j \in (i + 1)..Len(doc) :
                      Len(open_tags(SubSeq(doc, 1, j))) = Len(open_tags(Before(i)))}
    IN  IF closes = {} THEN 0
        ELSE CHOOSE j \in closes : \A k \in closes : j <= k

\* The element opened at index i is a command of the kinds, met while no
\* command is open: only unrecognized elements enclose it.
OpensCommand(i, kinds) ==
    /\ doc[i].type = "start"
    /\ as_ref(from_str(doc[i].tag)) \in kinds
    /\ \A t \in Range(open_tags(Before(i))) : from_str(t) = "Unknown"

\* The event at index k lies inside a command of the kinds: after its start
\* tag and before its own end tag.
Inside(k, kinds) ==
    \E i \in 1..(k - 1) :
        OpensCommand(i, kinds) /\ (Matching(i) = 0 \/ k < Matching(i))

\* The event at index k is met while no command is open.
TopLevel(k) == \A t \in Range(open_tags(Before(k))) : from_str(t) = "Unknown"

\* The step on a tag met inside an open collection command appends the tag
\* to the payload and changes nothing else.
CapturesNested ==
    (status = "scan" /\ pos <= Len(doc)
     /\ doc[pos].type \in {"start", "empty", "end"}
     /\ Inside(pos, COLLECTION_COMMANDS))
    => /\ modlet'.values = Append(modlet.values, bytes(doc[pos]))
       /\ stack' = stack
       /\ commands' = commands
       /\ status' = "scan"

\* C12: a start, empty or end tag met inside an open collection command,
\* whatever its name, is appended to the payload as it stands and changes
\* neither the open command nor the Command sequence.
C12_CollectionCapturesNested == [][CapturesNested]_vars

\* C13: the Command sequence never holds a StartTag entry: a wrapper element,
\* when opened or closed, appends nothing.
C13_WrapperEmitsNothing ==
    \A i \in DOMAIN commands : commands[i].kind # "StartTag"

\* C14: load_xml returns a Command sequence only for a document whose end is
\* reached with no command and no wrapper open.
C14_OpenAtEofFails ==
    status = "Ok" => stack = <<>> /\ open_tags(doc) = <<>>

\* The reader's next event is of the type.
Meets(type) == status = "scan" /\ pos <= Len(doc) /\ doc[pos].type = type

\* C15: a text met while a text command is open is appended to its payload
\* and the scan goes on; met while neither a text command nor a collection
\* command is open it ends the parse in a failure result (an Err returned).
C15_TextOutsideCommandIsError ==
    [][Meets("text") =>
          IF last_command(stack) \in TEXT_COMMANDS
          THEN modlet'.values = Append(modlet.values, doc[pos].tag)
               /\ status' = "scan"
          ELSE last_command(stack) \notin COLLECTION_COMMANDS => status' = "Err"]_vars

\* C16: a text met while a collection command is open is appended to that
\* command's payload and the scan goes on.
C16_TextInCollectionCaptured ==
    [][(Meets("text") /\ last_command(stack) \in COLLECTION_COMMANDS) =>
          /\ modlet'.values = Append(modlet.values, doc[pos].tag)
          /\ status' = "scan"]_vars

\* C17: the step on a self-closed remove or remove_attribute tag met while no
\* collection command is open appends exactly one Command of that kind with
\* the tag's xpath and leaves the open command as it is.
C17_EmptyRemoveEmitted ==
    [][(Meets("empty") /\ doc[pos].tag \in EMPTY_COMMANDS
        /\ last_command(stack) \notin COLLECTION_COMMANDS) =>
          /\ Len(commands') = Len(commands) + 1
          /\ SubSeq(commands', 1, Len(commands)) = commands
          /\ commands'[Len(commands')].kind = from_str(doc[pos].tag)
          /\ commands'[Len(commands')].xpath = get_attribute(doc[pos].attrs, "xpath")
          /\ stack' = stack]_vars

\* A step leaves the Command sequence as it is or pushes one Command at its
\* end: the sequence is in the order of the events that made its entries.
PushesAtEnd ==
    \/ commands' = commands
    \/ /\ Len(commands') = Len(commands) + 1
       /\ SubSeq(commands', 1, Len(commands)) = commands

C19_CommentInCommandIsPayload ==
    [][(Meets("comment") /\ stack # <<>>) =>
          /\ commands' = commands
          /\ Len(modlet'.values) = Len(modlet.values) + 1
          /\ SubSeq(modlet'.values, 1, Len(modlet.values)) = modlet.values]_vars

\* C20: the store of open commands never holds more than one entry.
C20_AtMostOneOpen == Len(stack) <= 1

(***************************************************************************)
(* Attributes read when a command opens (modlet_xml.rs 219-234)            *)
(***************************************************************************)
\* The start tags of the document that open a set_attribute element.
SetAttributeTags ==
    {doc[k] : k \in {j \in 1..Len(doc) :
                        doc[j].type = "start" /\ doc[j].tag = "set_attribute"}}

\* C21: every SetAttribute Command the parser returns has its attribute set
\* to the value of the name attribute of a set_attribute start tag of the
\* document it was read from.
C21_SetAttributeNameRead ==
    status = "Ok" =>
        \A i \in 1..Len(commands) :
            commands[i].kind = "SetAttribute" =>
                \E e \in SetAttributeTags :
                    commands[i].attribute = get_attribute(e.attrs, "name")

(***************************************************************************)
(* Command::write on one Command (command.rs 117-173)                      *)
(***************************************************************************)
\* Largest number of payload events of a Command handed to write.
MaxValues == 2

Kinds ==
    {"Append", "Comment", "Csv", "InsertAfter", "InsertBefore", "NoOp",
     "Remove", "RemoveAttribute", "Set", "SetAttribute", "StartTag", "Unknown"}

\* The payload events of an InstructionSet.
Values == {Text("5"), Text("7"), EmptyEv("item", <<>>)}

RECURSIVE Payloads(_)
Payloads(n) ==
    IF n = 0 THEN {<<>>}
    ELSE LET shorter == Payloads(n - 1) IN
         shorter \cup
         {Append(p, v) : p \in {q \in shorter : Len(q) = n - 1}, v \in Values}

\* The Commands write is called on: any kind, with the operator and the
\* attribute name present or absent as load_xml leaves them.
Commands ==
    {Cmd(k, "x", op, a, vs) :
        k \in Kinds,
        op \in {None, Some(CsvAdd(",")), Some(CsvRemove(";"))},
        a \in {None, Some("n")},
        vs \in Payloads(MaxValues)}

WriterInit ==
    /\ self \in Commands
    /\ writer = <<>>
    /\ wrote = "call"
    /\ MetadataIdle
    /\ doc = <<>>
    /\ pos = 1
    /\ stack = <<>>
    /\ modlet = InstructionSet_new
    /\ start_tag = ""
    /\ commands = <<>>
    /\ status = "idle"
    /\ modlets = <<>>
    /\ output0 = Absent
    /\ inCwd = TRUE
    /\ unwritable = {}
    /\ tree = Absent
    /\ stray = FALSE
    /\ pc = "idle"
    /\ outcome = <<>>
    /\ completion = <<>>
    /\ loaded_modlets = <<>>
    /\ files = <<>>
    /\ task = <<>>
    /\ next = 1
    /\ result = "none"

\* The arm matching self runs: its events reach the sink and write returns
\* Ok(()), or it panics before the element is written.
Put(r) ==
    /\ wrote = "call"
    /\ writer' = writer \o r.events
    /\ wrote' = IF r.panic THEN "Panic" ELSE "Ok"
    /\ UNCHANGED <<self, engine, parser, metadata>>

WriteCollection ==
    self.kind \in {"Append", "InsertAfter", "InsertBefore"} /\ Put(Command_write(self))

WriteComment == self.kind = "Comment" /\ Put(Command_write(self))

WriteCsv == self.kind = "Csv" /\ Put(Command_write(self))

WriteRemove ==
    self.kind \in {"Remove", "RemoveAttribute"} /\ Put(Command_write(self))

WriteSet == self.kind = "Set" /\ Put(Command_write(self))

WriteSetAttribute == self.kind = "SetAttribute" /\ Put(Command_write(self))

WriteStartTag == self.kind = "StartTag" /\ Put(Command_write(self))

WriteOther == self.kind \in {"NoOp", "Unknown"} /\ Put(Command_write(self))

WriterNext ==
    \/ WriteCollection
    \/ WriteComment
    \/ WriteCsv
    \/ WriteRemove
    \/ WriteSet
    \/ WriteSetAttribute
    \/ WriteStartTag
    \/ WriteOther

WriterSpec == WriterInit /\ [][WriterNext]_vars

\* The first event on the sink when it is an element.
Element == IF writer # <<>> /\ writer[1].type \in {"start", "empty"}
           THEN Some(writer[1]) ELSE None

\* C22: every Csv command is written as one element with the attributes
\* xpath, delim (one character) and op (add or remove, the operator the
\* command carries) and a text body equal to the payload values joined by ','.
C22_CsvWritten ==
    (wrote # "call" /\ self.kind = "Csv") =>
        /\ wrote = "Ok"
        /\ \E d \in {",", ";"}, o \in {"add", "remove"} :
              /\ self.csv_op # None => self.csv_op = Some([op |-> o, delim |-> d])
              /\ writer = <<StartEv("csv", <<<<"xpath", self.xpath>>,
                                             <<"delim", d>>, <<"op", o>>>>),
                            Text(Join(values_to_strings(self), ",")),
                            EndEv("csv")>>

\* C23: every Remove command is written as one self-closed element with an
\* xpath attribute, and every RemoveAttribute command as one self-closed
\* element with an xpath attribute and a name attribute.
C23_RemoveWritten ==
    (wrote # "call" /\ self.kind \in {"Remove", "RemoveAttribute"}) =>
        /\ wrote = "Ok"
        /\ Len(writer) = 1
        /\ writer[1].type = "empty"
        /\ get_attribute(writer[1].attrs, "xpath") = Some(self.xpath)
        /\ self.kind = "RemoveAttribute" =>
              get_attribute(writer[1].attrs, "name") # None

\* C24: writing a StartTag, NoOp or Unknown command puts nothing on the sink
\* and returns Ok, so a wrapper element never reaches a bundle.
C24_NonOperatingWritesNothing ==
    (wrote # "call" /\ self.kind \in {"StartTag", "NoOp", "Unknown"}) =>
        wrote = "Ok" /\ writer = <<>>

C24_Witness ==
    /\ wrote = "Ok"
    /\ self.kind = "StartTag"
    /\ self.values # <<>>
    /\ writer = <<>>

\* convert_case's to_case(Case::Flat) on the tag names met here: the words
\* of the name in lower case with nothing between them.
to_case_flat(input_str) ==
    CASE input_str \in {"insert_after", "insertAfter", "InsertAfter"} -> "insertafter"
      [] input_str \in {"insert_before", "insertBefore", "InsertBefore"} -> "insertbefore"
      [] input_str \in {"remove_attribute", "removeAttribute"} -> "removeattribute"
      [] input_str \in {"set_attribute", "setAttribute"} -> "setattribute"
      [] input_str = "no_op" -> "noop"
      [] input_str = "start_tag" -> "starttag"
      [] OTHER -> input_str

\* Command::from_str of command.rs, which load_xml does not call.
Command_from_str(input_str) ==
    LET match_string == to_case_flat(input_str) IN
    CASE match_string = "append" -> "Append"
      [] match_string = "comment" -> "Comment"
      [] match_string = "csv" -> "Csv"
      [] match_string = "insertafter" -> "InsertAfter"
      [] match_string = "insertbefore" -> "InsertBefore"
      [] match_string = "noop" -> "NoOp"
      [] match_string = "remove" -> "Remove"
      [] match_string = "removeattribute" -> "RemoveAttribute"
      [] match_string = "set" -> "Set"
      [] match_string = "setattribute" -> "SetAttribute"
      [] match_string = "starttag" -> "StartTag"
      [] OTHER -> "Unknown"

\* The spellings of a kind's tag name.
Spellings(kind) ==
    CASE kind = "InsertAfter" ->
            {"insert_after", "insertAfter", "InsertAfter", "insertafter"}
      [] kind = "InsertBefore" -> {"insert_before", "insertBefore", "insertbefore"}
      [] kind = "RemoveAttribute" -> {"remove_attribute", "removeAttribute"}
      [] kind = "SetAttribute" -> {"set_attribute", "setAttribute"}
      [] OTHER -> {}

\* The same statement as C25 for the classifier of command.rs.
FlatClassifiedBack ==
    wrote = "Ok" =>
        /\ \A n \in Spellings(self.kind) : Command_from_str(n) = self.kind
        /\ Element # None => Command_from_str(Element[1].tag) = self.kind

\* C25: the parser classifies every spelling of a kind's tag name, and the
\* element name the writer produced for a Command of the kind, as that kind.
C25_WrittenNameClassifiedBack ==
    wrote = "Ok" =>
        /\ \A n \in Spellings(self.kind) : from_str(n) = self.kind
        /\ Element # None => from_str(Element[1].tag) = self.kind

(***************************************************************************)
(* Passthrough files (lib.rs 98-124, package.rs 246-252)                   *)
(***************************************************************************)
Others == OtherFilesOf(loaded_modlets)

\* The passthrough files write_files has handled so far.
Handled == IF pc \in {"files", "done"} THEN 1..(next - 1) ELSE {}

\* The loaded modlets with a passthrough file for the destination.
Copies(p) ==
    {m \in Range(loaded_modlets) : \E g \in Range(others(m)) : dst(g) = p}

\* Modlet m has the first name, in str order, of the contributors of p and
\* its file for p holds the lines.
FirstWriter(m, p, lines) ==
    /\ m \in Copies(p)
    /\ \A m2 \in Copies(p) : StrLeq(name(m), name(m2))
    /\ \E g \in Range(others(m)) : dst(g) = p /\ g.lines = lines

\* C26: once a passthrough file that is no localization.txt has been handled,
\* its destination holds the content of the file of the contributing modlet
\* that is first in name order, and keeps it while later copies are handled.
C26_FirstWriterWins ==
    \A k \in Handled :
        ~is_localization(Others[k].base) =>
            /\ dst(Others[k]) \in DOMAIN tree.files
            /\ \E m \in Range(loaded_modlets) :
                  FirstWriter(m, dst(Others[k]), tree.files[dst(Others[k])])

C26_Witness ==
    /\ pc = "done"
    /\ result = "Ok"
    /\ modlets = <<2, 3>>
    /\ output0 = Stale
    /\ Cardinality(Copies(<<"", "icon.dll">>)) = 2
    /\ tree.files[<<"", "icon.dll">>] = <<Line("A", "")>>

\* The passthrough files for the destination, in the order write_files
\* meets them.
CopiesInOrder(p) == SelectSeq(Others, LAMBDA f : dst(f) = p)

\* The lines of a later file without its header, each ended by CRLF.
Appended(f) ==
    [i \in 1..(Len(f.lines) - 1) |-> Line(f.lines[i + 1].text, "\r\n")]

RECURSIVE Merged(_)
\* The first file in full, then the appended lines of each later file.
Merged(fs) ==
    IF Len(fs) = 1 THEN fs[1].lines
    ELSE Merged(SubSeq(fs, 1, Len(fs) - 1)) \o Appended(fs[Len(fs)])

\* The destination's content ends with a line terminator.
Terminated(p) ==
    LET first == CopiesInOrder(p)[1].lines IN first[Len(first)].eol # ""

\* C27: after a successful run every localization.txt destination holds the
\* lines of the first contributing modlet's file, then, modlet by modlet in
\* name order, the lines of each later file but its header, each ended by
\* CRLF and each a line of its own.
C27_LocalizationMerged ==
    (pc = "done" /\ result = "Ok" /\ next > Len(Others)) =>
        /\ InNameOrder([i \in 1..Len(loaded_modlets) |-> name(loaded_modlets[i])])
        /\ \A f \in Range(Others) :
              is_localization(f.base) =>
                  tree.files[dst(f)] = Merged(CopiesInOrder(dst(f)))

\* The statement of C27 for runs in which every first localization.txt ends
\* with a line terminator.
MergedWhenTerminated ==
    (\A f \in Range(Others) : is_localization(f.base) => Terminated(dst(f)))
        => C27_LocalizationMerged

\* A step that creates or changes the destination of a passthrough file.
Copied(p) ==
    /\ p \in DOMAIN tree'.files
    /\ p \notin DOMAIN tree.files \/ tree'.files[p] # tree.files[p]

PassthroughStep ==
    \E m \in Range(loaded_modlets) : \E f \in Range(others(m)) : Copied(dst(f))

\* Every merge task has ended, the file handled is the next one of the
\* modlets taken one after another in name order, and no other is touched.
InTurn ==
    /\ \A t \in DOMAIN task : task[t] \in {"done", "failed"}
    /\ InNameOrder([i \in 1..Len(loaded_modlets) |-> name(loaded_modlets[i])])
    /\ next <= Len(Others)
    /\ next' = next + 1
    /\ \A p \in DOMAIN tree'.files : Copied(p) => p = dst(Others[next])

\* C28: a passthrough file is written only when every merge task of the run
\* has ended, and the files are written one at a time, modlet after modlet
\* in name order.
C28_PassthroughAfterMerge == [][PassthroughStep => InTurn]_vars

C28_Witness ==
    /\ pc = "files"
    /\ modlets = <<2, 3>>
    /\ next = 3
    /\ Len(task) = 2
    /\ <<"", "Localization.txt">> \in DOMAIN tree.files

(***************************************************************************)
(* The output directory (package.rs 175-179, init.rs 46-62)                *)
(***************************************************************************)
\* C29: when the output directory did not exist before the run, a bundle or
\* passthrough file is in the output tree only if the directory at the
\* output path exists and holds its ModInfo.xml.
C29_CreatedBeforeFirstWrite ==
    (~output0.exists /\ DOMAIN tree.files # {}) => tree.exists /\ tree.modinfo

(***************************************************************************)
(* Grouping keys (modlet_xml.rs 162-169, package.rs 81-95)                 *)
(***************************************************************************)
\* The paths, relative to config, of the instruction files of the loaded
\* modlets that are grouped under the key.
GroupedPaths(file) ==
    {<<x.dir, x.base>> :
        x \in UNION {{y \in Range(xmls(m)) : filename(y) = file} :
                        m \in Range(loaded_modlets)}}

\* C30: every grouped path of the file-contribution map stands for one path
\* relative to config, so instruction files in different subdirectories are
\* never grouped together or written to one output file.
C30_GroupedByRelativePath ==
    \A t \in DOMAIN files : Cardinality(GroupedPaths(files[t].file)) = 1

(***************************************************************************)
(* Loading one modlet (package.rs 18-37, lib.rs 32-72)                     *)
(***************************************************************************)
\* The load of the i-th path has returned.
Loaded(i) == outcome[i] # "pending"

\* The Vec the fold and reduce yield holds the modlet of the i-th path.
Kept(i) == \E k \in 1..Len(loaded_modlets) : loaded_modlets[k] = modlets[i]

Joined == pc \notin {"load", "crashed"}

\* The load of the i-th path has just returned, or the loads were joined and
\* the count of the Vec is about to be tested.
Settled(i) ==
    \/ pc = "load" /\ completion # <<>> /\ completion[Len(completion)] = i
    \/ pc = "check"

\* C31: the load of a modlet without a Config directory ends in an Err and
\* run gets no Modlet for it; the load of a modlet with a Config directory,
\* parsable instruction files and no ModInfo.xml returns a Modlet whose
\* metadata is Modinfo::new().
C31_ConfigRequiredMetadataOptional ==
    \A i \in DOMAIN outcome :
        Settled(i) =>
            LET d == Disk[modlets[i]] IN
            /\ ~d.hasConfig =>
                  outcome[i] = "Err" /\ (Joined => ~Kept(i))
            /\ (/\ d.hasConfig
                /\ d.modinfo = "absent"
                /\ \A x \in Range(d.xmls) : x.doc = "ok") =>
                  /\ outcome[i] = "Ok"
                  /\ Joined => Kept(i)
                  /\ Modlet_modinfo(modlets[i]) = "Modinfo::new()"

C31_Witness ==
    /\ pc = "check"
    /\ modlets = <<4, 2>>
    /\ outcome = <<"Err", "Ok">>
    /\ loaded_modlets = <<2>>

\* C32: when an instruction file of a modlet does not parse, the load of the
\* modlet returns an Err (and run gets no Modlet for it).
C32_ParseFailureIsLoadError ==
    \A i \in DOMAIN outcome :
        (Loaded(i) /\ \E x \in Range(xmls(modlets[i])) : x.doc = "malformed") =>
            outcome[i] = "Err" /\ (Joined => ~Kept(i))

(***************************************************************************)
(* ModinfoSpec: a ModInfo document is parsed, its version is bumped up to  *)
(* MaxBumps times (dmt bump), and the Modinfo is serialized.               *)
(***************************************************************************)
MaxBumps == 2

ModinfoInit ==
    /\ xml \in ModinfoDocs
    /\ modinfo = Modinfo_default
    /\ written = None
    /\ mpc = "read"
    /\ bumps = 0
    /\ self = NoOp
    /\ writer = <<>>
    /\ wrote = "idle"
    /\ doc = <<>>
    /\ pos = 1
    /\ stack = <<>>
    /\ modlet = InstructionSet_new
    /\ start_tag = ""
    /\ commands = <<>>
    /\ status = "idle"
    /\ modlets = <<>>
    /\ output0 = Absent
    /\ inCwd = TRUE
    /\ unwritable = {}
    /\ tree = Absent
    /\ stray = FALSE
    /\ pc = "idle"
    /\ outcome = <<>>
    /\ completion = <<>>
    /\ loaded_modlets = <<>>
    /\ files = <<>>
    /\ task = <<>>
    /\ next = 1
    /\ result = "none"

\* Modinfo::from_string(xml)
FromString ==
    /\ mpc = "read"
    /\ modinfo' = from_string(xml)
    /\ mpc' = "ready"
    /\ UNCHANGED <<xml, written, bumps, engine, parser, emitter>>

\* One bump of the version: the Modinfo holds the bumped version, or the
\* addition panics.
Bump(r) ==
    /\ mpc = "ready"
    /\ bumps < MaxBumps
    /\ modinfo' = [modinfo EXCEPT !.version = r.version]
    /\ mpc' = IF r.panic THEN "Panic" ELSE "ready"
    /\ bumps' = bumps + 1
    /\ UNCHANGED <<xml, written, engine, parser, emitter>>

\* Modinfo::bump_version_major
BumpMajor == \E checks \in BOOLEAN : Bump(bump_major(modinfo.version, checks))

\* Modinfo::bump_version_minor
BumpMinor == \E checks \in BOOLEAN : Bump(bump_minor(modinfo.version, checks))

\* Modinfo::bump_version_patch
BumpPatch == \E checks \in BOOLEAN : Bump(bump_patch(modinfo.version, checks))

\* modinfo.to_string()
ToString_ ==
    /\ mpc = "ready"
    /\ written' = Some(Modinfo_to_string(modinfo))
    /\ mpc' = "done"
    /\ UNCHANGED <<xml, modinfo, bumps, engine, parser, emitter>>

ModinfoNext ==
    \/ FromString
    \/ BumpMajor
    \/ BumpMinor
    \/ BumpPatch
    \/ ToString_

ModinfoSpec == ModinfoInit /\ [][ModinfoNext]_vars

\* The version a bump is asked to produce.
Bumped(major, minor, patch) ==
    /\ mpc' = "ready"
    /\ modinfo'.version = Version(major, minor, patch, "", "")

\* C33: every bump of every version follows semantic versioning: bump_major
\* yields (major+1, 0, 0), bump_minor (major, minor+1, 0), bump_patch
\* (major, minor, patch+1), each with empty pre-release and build parts.
C33_BumpsFollowSemver ==
    [][LET v == modinfo.version IN
       /\ BumpMajor => Bumped(v.major + 1, 0, 0)
       /\ BumpMinor => Bumped(v.major, v.minor + 1, 0)
       /\ BumpPatch => Bumped(v.major, v.minor, v.patch + 1)]_vars

\* The same for the versions whose bumped part is below the largest u64.
C33_BumpsBelowMax ==
    [][LET v == modinfo.version IN
       /\ (BumpMajor /\ v.major + 1 < Modulus) => Bumped(v.major + 1, 0, 0)
       /\ (BumpMinor /\ v.minor + 1 < Modulus) => Bumped(v.major, v.minor + 1, 0)
       /\ (BumpPatch /\ v.patch + 1 < Modulus) => Bumped(v.major, v.minor, v.patch + 1)]_vars

\* The names of the children in the order to_string writes them.
WrittenOrder(root) ==
    IF root = "xml"
    THEN <<"Name", "DisplayName", "Version", "Description", "Author", "Website">>
    ELSE <<"Name", "Version", "Description", "Author">>

\* A document in the form to_string writes: the declaration with encoding
\* UTF-8 for V2 and none for V1, every field present once in the writer's
\* order, the version in full (major.minor.patch, then -pre and +build).
WrittenForm(d) ==
    /\ d.decl = IF d.root = "xml" THEN Some("UTF-8") ELSE None
    /\ [i \in 1..Len(d.elems) |-> d.elems[i].name] = WrittenOrder(d.root)
    /\ \A i \in 1..Len(d.elems) :
           d.elems[i].name = "Version" => Len(d.elems[i].vtext.nums) = 3

\* The document was parsed and serialized with no bump in between.
RoundTrip == mpc = "done" /\ bumps = 0

NoRepeat(s) == \A i, j \in DOMAIN s : s[i] = s[j] => i = j

\* C35: no modlet is listed twice under a grouped path, and a bundle written
\* holds one provenance comment per contributing modlet, also when a modlet
\* has several instruction files with the same grouping key.
C35_ModletOncePerPath ==
    /\ \A t \in DOMAIN files : NoRepeat(files[t].modlets)
    /\ \A t \in DOMAIN task :
           task[t] = "done" =>
               Len(Provenance(tree.files[Dest(t)])) = Len(Contributors(files[t].file))

\* The instruction files of the loaded modlets with that grouping key.
FilesOf(m, file) == SelectSeq(xmls(m), LAMBDA x : filename(x) = file)

Keys == UNION {Range(xml_files(m)) : m \in Range(loaded_modlets)}

\* The events x's Commands are written as lie in the content, in one piece.
Holds(content, x) ==
    LET w == WriteAll(x.commands).events IN
    \E k \in 0..(Len(content) - Len(w)) : SubSeq(content, k + 1, k + Len(w)) = w

\* The files of the output that hold a bundle root element.
BundleFiles ==
    {d \in DOMAIN tree.files : tree.files[d] # <<>> /\ Head(tree.files[d]) = Bundle[1]}

\* The run passed the load-count check, every merge task wrote its bundle
\* and the run returned Ok.
Successful ==
    /\ pc = "done"
    /\ result = "Ok"
    /\ load_count_check
    /\ \A t \in DOMAIN task : task[t] = "done"

\* What the instruction files of the contributors of a key are written as.
Written(k) ==
    UNION {Range(WriteAll(x.commands).events) :
              x \in UNION {Range(FilesOf(m, k)) : m \in Range(Contributors(k))}}

Idle == status \in {"scan", "Ok"} /\ stack = <<>>

\* C37: whenever no command is open the partial InstructionSet is empty, so
\* nothing read for one element is carried into the Command of another.
C37_IdleInstructionSetEmpty == Idle => modlet = InstructionSet_new

\* C38: for every Command of a sequence the parser returns, write completes
\* with a result and does not panic.
C38_WriterTotalOnParserOutput ==
    status = "Ok" =>
        \A k \in DOMAIN commands : ~Command_write(to_writer(commands[k])).panic

(***************************************************************************)
(* The output Config directory (package.rs 47-56, 181-208)                 *)
(***************************************************************************)
\* The run passed the load-count check and is past the Config clean-up.
PastCleanUp == load_count_check /\ pc \in {"merge", "files", "done", "crashed"}

\* The file at p is as it was before the run.
Leftover(p) ==
    p \in DOMAIN tree.files /\ p \in DOMAIN output0.files
    /\ tree.files[p] = output0.files[p]

InputPlace(m) == CHOOSE i \in DOMAIN modlets : modlets[i] = m

\* Two entries of one name stand in the order of the input path list.
TiesInInputOrder(ms) ==
    \A i, j \in DOMAIN ms :
        (i < j /\ ms[i] # ms[j] /\ name(ms[i]) = name(ms[j])) =>
            InputPlace(ms[i]) < InputPlace(ms[j])

\* The first place in the content where the events start.
PlaceOf(content, w) ==
    CHOOSE k \in 0..Len(content) :
        /\ k + Len(w) <= Len(content) /\ SubSeq(content, k + 1, k + Len(w)) = w
        /\ \A h \in 0..(k - 1) : SubSeq(content, h + 1, h + Len(w)) # w

\* What the first instruction file of m with that key is written as.
FirstWritten(m, k) == WriteAll(FilesOf(m, k)[1].commands).events

\* C40: two loaded modlets of one name stand in the order of the input path
\* list in the Vec the loads yield and the sort returns (the order the
\* passthrough files are handled in), in every list of the file-contribution
\* map and in every bundle written, whichever load completed first.
C40_SameNameInInputOrder ==
    /\ TiesInInputOrder(loaded_modlets)
    /\ \A t \in DOMAIN files : TiesInInputOrder(files[t].modlets)
    /\ \A t \in DOMAIN task :
           task[t] = "done" =>
               \A a, b \in Range(Contributors(files[t].file)) :
                   (a # b /\ name(a) = name(b) /\ InputPlace(a) < InputPlace(b)) =>
                       PlaceOf(tree.files[Dest(t)], FirstWritten(a, files[t].file))
                         < PlaceOf(tree.files[Dest(t)], FirstWritten(b, files[t].file))

C40_Witness ==
    /\ pc = "done"
    /\ result = "Ok"
    /\ modlets = <<3, 1>>
    /\ loaded_modlets = <<3, 1>>
    /\ \E t \in DOMAIN task :
           /\ task[t] = "done"
           /\ Len(Contributors(files[t].file)) = 2
           /\ PlaceOf(tree.files[Dest(t)], FirstWritten(3, files[t].file))
                < PlaceOf(tree.files[Dest(t)], FirstWritten(1, files[t].file))

====
